---- MODULE Spec2Model ----
(***************************************************************************)
(* Streaming result cursors of clickhouse-rs: RawCursor (cursors/raw.rs)   *)
(* and RowCursor (cursors/row.rs) over a chunked response body.            *)
(*                                                                         *)
(* One step of the cursor is one poll of the top-level future: it runs     *)
(* every synchronous statement up to the next suspension or return.  The   *)
(* transport (response future, chunk stream) is the environment: chunks    *)
(* arrive between polls, and a poll that finds nothing arrived is Pending. *)
(***************************************************************************)
EXTENDS Integers, Sequences, FiniteSets, TLC

\* ---------------------------------------------------------------- bounds
MaxChunks == 3
MaxRows == 2
MaxTerminal == 2

\* --------------------------------------------------------------- helpers
Take(s, n) == SubSeq(s, 1, n)
Drop(s, n) == SubSeq(s, n + 1, Len(s))

RECURSIVE Concat(_)
Concat(ss) == IF ss = <<>> THEN <<>> ELSE Head(ss) \o Concat(Tail(ss))

RECURSIVE SumData(_)
SumData(cs) == IF cs = <<>> THEN 0 ELSE Len(Head(cs).data) + SumData(Tail(cs))

RECURSIVE SumNet(_)
SumNet(cs) == IF cs = <<>> THEN 0 ELSE Head(cs).net_size + SumNet(Tail(cs))

DataOf(cs) == Concat([i \in 1..Len(cs) |-> cs[i].data])

\* ------------------------------------------------------ results of a poll
NoRow == [id |-> 0, data |-> <<>>]
NoMeta == [present |-> FALSE, columns |-> <<>>, compatible |-> FALSE]

Res(k, d, e, r, n) == [kind |-> k, data |-> d, err |-> e, row |-> r, sawNone |-> n]
Pending == Res("pending", <<>>, "", NoRow, FALSE)
Panic == Res("panic", <<>>, "poll after completion", NoRow, FALSE)
ReadyNone == Res("none", <<>>, "", NoRow, TRUE)
ReadySome(d) == Res("some", d, "", NoRow, FALSE)
ReadyErr(e) == Res("err", <<>>, e, NoRow, FALSE)

\* ------------------------------------------------- the row type T (codec)
\* T is SimpleRow-like: a fixed-width id column and a length-prefixed
\* string column, as in tests/it/cursor_stats.rs.
KnownTypes == {1, 2}
ColumnsOfT == <<[name |-> 1, type |-> 1], [name |-> 2, type |-> 2]>>

EncodeRow(r) == <<r.id, Len(r.data)>> \o r.data

RECURSIVE EncodeRows(_)
EncodeRows(rs) == IF rs = <<>> THEN <<>> ELSE EncodeRow(Head(rs)) \o EncodeRows(Tail(rs))

\* RowBinaryWithNamesAndTypes header: column count, then every name, then
\* every type.  rest is the number of bytes after the header.
HdrRes(k, cols, rest) == [kind |-> k, columns |-> cols, rest |-> rest]

RECURSIVE FirstBadType(_, _, _)
FirstBadType(s, n, i) ==
    IF i > n THEN "ok"
    ELSE IF 1 + n + i > Len(s) THEN "need"
    ELSE IF s[1 + n + i] \notin KnownTypes THEN "err"
    ELSE FirstBadType(s, n, i + 1)

parse_rbwnat_columns_header(s) ==
    IF Len(s) = 0 THEN HdrRes("need", <<>>, 0)
    ELSE LET n == s[1] IN
         IF Len(s) < 1 + n THEN HdrRes("need", <<>>, 0)
         ELSE LET t == FirstBadType(s, n, 1) IN
              IF t # "ok" THEN HdrRes(t, <<>>, 0)
              ELSE HdrRes("ok",
                          [i \in 1..n |-> [name |-> s[1 + i], type |-> s[1 + n + i]]],
                          Len(s) - (1 + 2 * n))

\* RowMetadata::new::<T> / new_for_cursor::<T>: the call sites take a
\* RowMetadata, not a Result, so a mismatch is carried in the metadata.
RowMetadataNew(cols) == [present |-> TRUE, columns |-> cols, compatible |-> cols = ColumnsOfT]

DecRes(k, r, rest, e) == [kind |-> k, row |-> r, rest |-> rest, err |-> e]

\* A string column holds UTF-8 text; the byte 9 stands for a byte sequence
\* that is not.
deserialize_row_binary(s) ==
    IF Len(s) < 2 THEN DecRes("need", NoRow, 0, "")
    ELSE IF Len(s) < 2 + s[2] THEN DecRes("need", NoRow, 0, "")
    ELSE IF \E i \in 3..(2 + s[2]) : s[i] = 9 THEN DecRes("err", NoRow, 0, "InvalidUtf8Encoding")
    ELSE DecRes("ok", [id |-> s[1], data |-> SubSeq(s, 3, 2 + s[2])], Len(s) - (2 + s[2]), "")

deserialize_rbwnat(s, meta) ==
    IF ~meta.compatible THEN DecRes("err", NoRow, 0, "SchemaMismatch")
    ELSE deserialize_row_binary(s)

\* ------------------------------------------------------------- BytesExt
BytesDefault == [bytes |-> <<>>, cursor |-> 0]
Slice(b) == Drop(b.bytes, b.cursor)
Remaining(b) == Len(b.bytes) - b.cursor
SetRemaining(b, n) == [b EXCEPT !.cursor = Len(b.bytes) - n]
Extend(b, chunk) == [bytes |-> Slice(b) \o chunk, cursor |-> 0]

\* ------------------------------------------------------------- the state
VARIABLES
    mode,        \* "raw": the driver calls RawCursor::next; "row": RowCursor
    validation,  \* the validation flag given to the cursor under test
    hdr,         \* header bytes the server sends
    rows,        \* rows the server sends after the header
    tr,          \* transport: response future outcome and chunk stream
    cur,         \* RawCursor
    rc,          \* RowCursor
    inflight,    \* a call to next has returned Pending and is still held
    out,         \* results returned by the completed calls to next, in order
    abandoned,   \* an in-flight call to next has been dropped
    panicked     \* the task has panicked

vars == <<mode, validation, hdr, rows, tr, cur, rc, inflight, out, abandoned, panicked>>

\* The header the server writes for a column list.
ColumnsHeader(cols) ==
    <<Len(cols)>> \o [i \in 1..Len(cols) |-> cols[i].name] \o [i \in 1..Len(cols) |-> cols[i].type]

RowVals == {[id |-> 1, data |-> <<>>], [id |-> 2, data |-> <<3>>]}
RowSeqs == UNION {[1..n -> RowVals] : n \in 0..MaxRows}
\* A row whose string column does not decode.
BadRow == [id |-> 1, data |-> <<9>>]
RowInputs == RowSeqs \cup {<<BadRow>>}
HeaderInputs == {<<2, 1, 2, 1, 2>>, <<2, 1, 2, 1, 1>>, <<1, 1, 1>>, <<0>>, <<1, 1, 7>>}

\* The wire size of a chunk (Chunk::net_size): compressed blocks are smaller
\* than their data, a block of one byte is not.
NetSize(d) == (Len(d) + 1) \div 2

\* RawCursor::new.  RowCursor::new builds its raw cursor without a
\* validation flag (row.rs:31) and discovers the header itself, so the raw
\* cursor under a RowCursor takes the non-validating branch.
RawCursorNew(v) ==
    [state |-> "Waiting", validation |-> v, future |-> "pending", chunks |-> "future",
     net_size |-> 0, data_size |-> 0, metadata |-> NoMeta]

RowCursorInit == [phase |-> "new", bytes |-> BytesDefault, validation |-> "Unset",
                  row_metadata |-> NoMeta, err |-> ""]

Init ==
    /\ mode \in {"raw", "row"}
    /\ validation \in BOOLEAN
    /\ hdr \in IF validation THEN HeaderInputs ELSE {<<>>}
    /\ rows \in RowInputs
    /\ hdr \in {<<>>, ColumnsHeader(ColumnsOfT)} \/ Len(rows) <= 1
    /\ tr = [response |-> "unresolved", unsent |-> hdr \o EncodeRows(rows), queue |-> <<>>,
             term |-> "open", sent |-> 0, pulled |-> <<>>]
    /\ cur = RawCursorNew(mode = "raw" /\ validation)
    /\ rc = RowCursorInit
    /\ inflight = FALSE
    /\ out = <<>>
    /\ abandoned = FALSE
    /\ panicked = FALSE

\* ---------------------------------------------------------- the transport
ResponseOk ==
    /\ tr.response = "unresolved"
    /\ tr' = [tr EXCEPT !.response = "ok"]
    /\ UNCHANGED <<mode, validation, hdr, rows, cur, rc, inflight, out, abandoned, panicked>>

ResponseErr ==
    /\ tr.response = "unresolved"
    /\ tr' = [tr EXCEPT !.response = "err"]
    /\ UNCHANGED <<mode, validation, hdr, rows, cur, rc, inflight, out, abandoned, panicked>>

Arrive ==
    /\ tr.response = "ok"
    /\ tr.term = "open"
    /\ tr.sent < MaxChunks
    /\ \E k \in 1..Len(tr.unsent) :
         LET d == Take(tr.unsent, k) IN
         tr' = [tr EXCEPT !.unsent = Drop(tr.unsent, k),
                          !.queue = Append(tr.queue, [data |-> d, net_size |-> NetSize(d)]),
                          !.sent = tr.sent + 1]
    /\ UNCHANGED <<mode, validation, hdr, rows, cur, rc, inflight, out, abandoned, panicked>>

StreamEnd ==
    /\ tr.response = "ok"
    /\ tr.term = "open"
    /\ tr' = [tr EXCEPT !.term = "end"]
    /\ UNCHANGED <<mode, validation, hdr, rows, cur, rc, inflight, out, abandoned, panicked>>

StreamFail ==
    /\ tr.response = "ok"
    /\ tr.term = "open"
    /\ tr' = [tr EXCEPT !.term = "err"]
    /\ UNCHANGED <<mode, validation, hdr, rows, cur, rc, inflight, out, abandoned, panicked>>

\* Chunks::poll_next: the next arrived chunk, the end, the failure (after
\* which the stream is ended), or Pending.
PollChunks(t) ==
    IF t.queue # <<>> THEN
        [res |-> ReadySome(Head(t.queue).data), chunk |-> Head(t.queue),
         t |-> [t EXCEPT !.queue = Tail(t.queue), !.pulled = Append(t.pulled, Head(t.queue))]]
    ELSE IF t.term \in {"end", "failed"} THEN
        [res |-> ReadyNone, chunk |-> [data |-> <<>>, net_size |-> 0], t |-> t]
    ELSE IF t.term = "err" THEN
        [res |-> ReadyErr("Network"), chunk |-> [data |-> <<>>, net_size |-> 0],
         t |-> [t EXCEPT !.term = "failed"]]
    ELSE
        [res |-> Pending, chunk |-> [data |-> <<>>, net_size |-> 0], t |-> t]

\* ------------------------------------------------------------ RawCursor
\* Every operator below takes the value of a call as a parameter where the
\* code binds it to a local (let p = ...; match p ...).
MetaRes(k, e, m, ns, ds, rem, t) ==
    [kind |-> k, err |-> e, row_metadata |-> m, net_size |-> ns, data_size |-> ds,
     remaining_data |-> rem, t |-> t]

\* parse_row_metadata, raw.rs:157-179: the parse attempt on the accumulated
\* bytes.  "need" asks the loop for another chunk.
ParseAttempt(acc, h, ds, ns, t) ==
    IF h.kind = "ok" THEN
        MetaRes("ok", "", RowMetadataNew(h.columns), ns, ds, Slice(SetRemaining(acc, h.rest)), t)
    ELSE IF h.kind = "need" THEN MetaRes("need", "", NoMeta, ns, ds, acc, t)
    ELSE MetaRes("err", "InvalidColumnsHeader", NoMeta, 0, 0, <<>>, t)

\* parse_row_metadata, raw.rs:144-156: one pull of the loop.  accumulated_data,
\* data_size and net_size are locals of the call; a Pending or an error from
\* the stream returns at once.
ParsePull(accumulated_data, data_size, net_size, p) ==
    IF p.res.kind = "pending" THEN MetaRes("pending", "", NoMeta, 0, 0, <<>>, p.t)
    ELSE IF p.res.kind = "err" THEN MetaRes("err", p.res.err, NoMeta, 0, 0, <<>>, p.t)
    ELSE IF p.res.kind = "none" THEN
        MetaRes("err", "BadResponse: Could not read columns header", NoMeta, 0, 0, <<>>, p.t)
    ELSE ParseAttempt(Extend(accumulated_data, p.chunk.data),
                      parse_rbwnat_columns_header(Slice(Extend(accumulated_data, p.chunk.data))),
                      data_size + Len(p.chunk.data), net_size + p.chunk.net_size, p.t)

RECURSIVE ParseLoop(_)
ParseLoop(m) ==
    IF m.kind # "need" THEN m
    ELSE ParseLoop(ParsePull(m.remaining_data, m.data_size, m.net_size, PollChunks(m.t)))

parse_row_metadata(t) == ParseLoop(MetaRes("need", "", NoMeta, 0, 0, BytesDefault, t))

\* What is left of the Waiting state when poll_resolve returns without
\* replacing it although the future has completed: the chunk stream was
\* moved out of the future into a local and is dropped with it.
WaitingAfterEarlyReturn(c) == [c EXCEPT !.future = "completed", !.chunks = "dropped"]

LoadedUncounted(c, chunks, ns, ds, m) ==
    [c EXCEPT !.state = "Loading", !.future = "completed", !.chunks = chunks,
              !.net_size = 0, !.data_size = 0, !.metadata = m]
Loaded(c, chunks, ns, ds, m) ==
    [c EXCEPT !.state = "Loading", !.future = "completed", !.chunks = chunks,
              !.net_size = ns, !.data_size = ds, !.metadata = m]

\* poll_resolve, raw.rs:100-114.  res.kind "ready" stands for
\* Ready(Ok(remaining_data)), with an empty data for None.
ResolveValidated(c, m) ==
    IF m.kind = "pending" THEN [c |-> WaitingAfterEarlyReturn(c), t |-> m.t, res |-> Pending]
    ELSE IF m.kind = "err" THEN
        [c |-> WaitingAfterEarlyReturn(c), t |-> m.t, res |-> ReadyErr(m.err)]
    ELSE [c |-> Loaded(c, "stream", m.net_size, m.data_size, m.row_metadata),
          t |-> m.t, res |-> Res("ready", m.remaining_data, "", NoRow, FALSE)]

\* poll_resolve, raw.rs:115-122: Ok(chunks) without validation.
ResolveUnvalidatedParses(c, t) == ResolveValidated(c, parse_row_metadata(t))
ResolveUnvalidated(c, t) ==
    [c |-> Loaded(c, "stream", 0, 0, c.metadata), t |-> t,
     res |-> Res("ready", <<>>, "", NoRow, FALSE)]

\* poll_resolve, raw.rs:123-130: Err(err), the state is replaced all the same.
ResolveFailedStaysWaiting(c, t) ==
    [c |-> [c EXCEPT !.future = "completed"], t |-> t, res |-> ReadyErr("Network")]
ResolveFailed(c, t) ==
    [c |-> Loaded(c, "empty", 0, 0, c.metadata), t |-> t, res |-> ReadyErr("Network")]

poll_resolve(c, t) ==
    IF c.future = "completed" THEN [c |-> c, t |-> t, res |-> Panic]
    ELSE IF t.response = "unresolved" THEN [c |-> c, t |-> t, res |-> Pending]
    ELSE IF t.response = "ok" /\ c.validation THEN ResolveValidated(c, parse_row_metadata(t))
    ELSE IF t.response = "ok" THEN ResolveUnvalidated(c, t)
    ELSE ResolveFailed(c, t)

\* poll_next in the Loading state, raw.rs:76-83.
LoadingChunkAssign(c, p) ==
    IF p.res.kind = "some" THEN
        [c |-> [c EXCEPT !.net_size = p.chunk.net_size, !.data_size = Len(p.chunk.data)],
         t |-> p.t, res |-> p.res]
    ELSE [c |-> c, t |-> p.t, res |-> p.res]
LoadingChunkForgetsMetadata(c, p) ==
    IF p.res.kind = "some" THEN
        [c |-> [c EXCEPT !.net_size = c.net_size + p.chunk.net_size,
                         !.data_size = c.data_size + Len(p.chunk.data),
                         !.metadata = NoMeta],
         t |-> p.t, res |-> p.res]
    ELSE [c |-> c, t |-> p.t, res |-> p.res]
LoadingChunk(c, p) ==
    IF p.res.kind = "some" THEN
        [c |-> [c EXCEPT !.net_size = c.net_size + p.chunk.net_size,
                         !.data_size = c.data_size + Len(p.chunk.data)],
         t |-> p.t, res |-> p.res]
    ELSE [c |-> c, t |-> p.t, res |-> p.res]

LoadingPollRewinds(c, t) ==
    IF c.chunks = "empty" THEN [c |-> [c EXCEPT !.state = "Waiting"], t |-> t, res |-> ReadyNone]
    ELSE LoadingChunk(c, PollChunks(t))
LoadingPoll(c, t) ==
    IF c.chunks = "empty" THEN [c |-> c, t |-> t, res |-> ReadyNone]
    ELSE LoadingChunk(c, PollChunks(t))

\* poll_next in the Waiting state, raw.rs:66-72.
AfterResolveDropsRemaining(r) ==
    IF r.res.kind # "ready" THEN r ELSE LoadingPoll(r.c, r.t)
AfterResolve(r) ==
    IF r.res.kind # "ready" THEN r
    ELSE IF r.res.data # <<>> THEN [r EXCEPT !.res = ReadySome(r.res.data)]
    ELSE LoadingPoll(r.c, r.t)

poll_next(c, t) ==
    IF c.state = "Waiting" THEN AfterResolve(poll_resolve(c, t)) ELSE LoadingPoll(c, t)

received_bytes(c) == IF c.state = "Loading" THEN c.net_size ELSE 0
decoded_bytes(c) == IF c.state = "Loading" THEN c.data_size ELSE 0

IsTerminal(r) == r.kind \in {"none", "err"}
Terminals == Cardinality({i \in 1..Len(out) : IsTerminal(out[i])})

\* The caller of a raw next takes the result of one poll.
RawTake(r) ==
    /\ cur' = r.c
    /\ tr' = r.t
    /\ inflight' = (r.res.kind = "pending")
    /\ out' = IF r.res.kind = "pending" THEN out ELSE Append(out, r.res)
    /\ panicked' = (r.res.kind = "panic")

\* One poll of RawCursor::next by the driver.
RawNext ==
    /\ mode = "raw"
    /\ ~panicked
    /\ Terminals < MaxTerminal
    /\ RawTake(poll_next(cur, tr))
    /\ UNCHANGED <<mode, validation, hdr, rows, rc, abandoned>>

\* ------------------------------------------------------------ RowCursor
\* A RowCursor future after one step: the cursor, the raw cursor, the
\* transport, the result, and whether the loop goes round again.
RowRes(r, c, t, res, again) == [rc |-> r, c |-> c, t |-> t, res |-> res, again |-> again]

NewFailed(r, e) == [r EXCEPT !.phase = "failed", !.err = e]

\* RowCursor::new, row.rs:42-66: the parse attempt after a chunk was added.
NewAttempt(r, h, p) ==
    IF h.kind = "ok" /\ h.columns # <<>> THEN
        RowRes([r EXCEPT !.phase = "ready", !.bytes = SetRemaining(r.bytes, h.rest),
                         !.validation = "Enabled", !.row_metadata = RowMetadataNew(h.columns)],
               p.c, p.t, p.res, FALSE)
    ELSE IF h.kind = "ok" THEN
        RowRes(NewFailed(r, "BadResponse: Expected at least one column in the header"),
               p.c, p.t, p.res, FALSE)
    ELSE IF h.kind = "need" THEN RowRes(r, p.c, p.t, p.res, TRUE)
    ELSE RowRes(NewFailed(r, "InvalidColumnsHeader"), p.c, p.t, p.res, FALSE)

\* Some(chunk) => self.bytes.extend(chunk) (row.rs:35, row.rs:115).
AppendChunkReplaces(r, chunk) == [r EXCEPT !.bytes = Extend(BytesDefault, chunk)]
AppendChunk(r, chunk) == [r EXCEPT !.bytes = Extend(r.bytes, chunk)]

\* RowCursor::new, row.rs:34-41: bytes and raw are locals of the future and
\* live across its awaits.
NewPull(r, p) ==
    IF p.res.kind \in {"pending", "panic"} THEN RowRes(r, p.c, p.t, p.res, FALSE)
    ELSE IF p.res.kind = "err" THEN RowRes(NewFailed(r, p.res.err), p.c, p.t, p.res, FALSE)
    ELSE IF p.res.kind = "none" THEN
        RowRes(NewFailed(r, "BadResponse: Could not read columns header"), p.c, p.t, p.res, FALSE)
    ELSE NewAttempt(AppendChunk(r, p.res.data),
                    parse_rbwnat_columns_header(Slice(Extend(r.bytes, p.res.data))), p)

RECURSIVE RowNewLoop(_)
RowNewLoop(x) == IF ~x.again THEN x ELSE RowNewLoop(NewPull(x.rc, poll_next(x.c, x.t)))

RowNewTake(x) ==
    /\ rc' = x.rc
    /\ cur' = x.c
    /\ tr' = x.t
    /\ panicked' = (x.res.kind = "panic")

\* One poll of RowCursor::new.
RowNew ==
    /\ mode = "row"
    /\ rc.phase = "new"
    /\ ~panicked
    /\ IF validation THEN RowNewTake(RowNewLoop(RowRes(rc, cur, tr, Pending, TRUE)))
       ELSE /\ rc' = [rc EXCEPT !.phase = "ready", !.validation = "Disabled"]
            /\ UNCHANGED <<cur, tr, panicked>>
    /\ UNCHANGED <<mode, validation, hdr, rows, inflight, out, abandoned>>

\* The decode attempt of RowCursor::next (row.rs:92-101).
RowDecodeUnvalidated(r) == deserialize_row_binary(Slice(r.bytes))
RowDecode(r) ==
    IF r.validation = "Enabled" THEN deserialize_rbwnat(Slice(r.bytes), r.row_metadata)
    ELSE deserialize_row_binary(Slice(r.bytes))

\* Ok(value): self.bytes.set_remaining(slice.len()) (row.rs:104).
CommitRowWhole(r, d) == [r EXCEPT !.bytes = SetRemaining(r.bytes, 0)]
CommitRow(r, d) == [r EXCEPT !.bytes = SetRemaining(r.bytes, d.rest)]

\* The raw cursor returned None (row.rs:116-121).
AtStreamEndSilent(r) == ReadyNone
AtStreamEndAlwaysError(r) == Res("err", <<>>, "NotEnoughData", NoRow, TRUE)
AtStreamEnd(r) ==
    IF Remaining(r.bytes) > 0 THEN Res("err", <<>>, "NotEnoughData", NoRow, TRUE)
    ELSE ReadyNone

\* RowCursor::next, row.rs:114-122: the await on the raw cursor.
NextPull(r, p) ==
    IF p.res.kind \in {"pending", "panic", "err"} THEN RowRes(r, p.c, p.t, p.res, FALSE)
    ELSE IF p.res.kind = "some" THEN RowRes(AppendChunk(r, p.res.data), p.c, p.t, p.res, TRUE)
    ELSE RowRes(r, p.c, p.t, AtStreamEnd(r), FALSE)

\* RowCursor::next, row.rs:102-111: the match on the decode result.
NextDecodedLeaks(r, d, c, t) ==
    IF d.kind = "ok" THEN RowRes(CommitRow(r, d), c, t, Res("row", <<>>, "", d.row, FALSE), FALSE)
    ELSE IF d.kind = "need" THEN RowRes(r, c, t, ReadyErr("NotEnoughData"), FALSE)
    ELSE RowRes(r, c, t, ReadyErr(d.err), FALSE)
NextDecodedDropsBuffer(r, d, c, t) ==
    IF d.kind = "ok" THEN RowRes(CommitRow(r, d), c, t, Res("row", <<>>, "", d.row, FALSE), FALSE)
    ELSE IF d.kind = "need" THEN NextPull(r, poll_next(c, t))
    ELSE RowRes([r EXCEPT !.bytes = BytesDefault], c, t, ReadyErr(d.err), FALSE)
NextDecoded(r, d, c, t) ==
    IF d.kind = "ok" THEN RowRes(CommitRow(r, d), c, t, Res("row", <<>>, "", d.row, FALSE), FALSE)
    ELSE IF d.kind = "need" THEN NextPull(r, poll_next(c, t))
    ELSE RowRes(r, c, t, ReadyErr(d.err), FALSE)

\* One round of the loop of RowCursor::next, from its top.
NextRound(r, c, t) ==
    IF Remaining(r.bytes) > 0 THEN NextDecoded(r, RowDecode(r), c, t)
    ELSE NextPull(r, poll_next(c, t))

RECURSIVE RowNextLoop(_)
RowNextLoop(x) == IF ~x.again THEN x ELSE RowNextLoop(NextRound(x.rc, x.c, x.t))

\* A call starts at the top of the loop; a resumed call is at
\* self.raw.next().await.
RowNextPoll(r, c, t, atAwait) ==
    IF atAwait THEN RowNextLoop(NextPull(r, poll_next(c, t)))
    ELSE RowNextLoop(RowRes(r, c, t, Pending, TRUE))

RowNextTake(x) ==
    /\ rc' = x.rc
    /\ cur' = x.c
    /\ tr' = x.t
    /\ inflight' = (x.res.kind = "pending")
    /\ out' = IF x.res.kind = "pending" THEN out ELSE Append(out, x.res)
    /\ panicked' = (x.res.kind = "panic")

\* One poll of RowCursor::next by the driver.
RowNext ==
    /\ mode = "row"
    /\ rc.phase = "ready"
    /\ ~panicked
    /\ Terminals < MaxTerminal
    /\ RowNextTake(RowNextPoll(rc, cur, tr, inflight))
    /\ UNCHANGED <<mode, validation, hdr, rows, abandoned>>

\* The caller drops the future of a pending next (a timeout, a select!).
\* The future borrows the cursor and owns nothing else.
AbandonedCursorLosesBuffer(r) == [r EXCEPT !.bytes = BytesDefault]
AbandonedCursor(r) == r

Abandon ==
    /\ mode = "row"
    /\ inflight
    /\ ~panicked
    /\ inflight' = FALSE
    /\ abandoned' = TRUE
    /\ rc' = AbandonedCursor(rc)
    /\ UNCHANGED <<mode, validation, hdr, rows, tr, cur, out, panicked>>

Next ==
    \/ ResponseOk
    \/ ResponseErr
    \/ Arrive
    \/ StreamEnd
    \/ StreamFail
    \/ RawNext
    \/ RowNew
    \/ RowNext
    \/ Abandon

Spec == Init /\ [][Next]_vars

\* ENABLED <<A>>_vars of the three cursor actions, from their guards and
\* from what one poll returns: a poll makes a step unless it is one more
\* Pending that leaves the cursors and the transport as they are.
RawPollChanges(r) == r.res.kind # "pending" \/ ~inflight \/ r.c # cur \/ r.t # tr
RowPollChanges(x) ==
    x.res.kind # "pending" \/ ~inflight \/ x.rc # rc \/ x.c # cur \/ x.t # tr
RowNewChanges(x) == x.res.kind = "panic" \/ x.rc # rc \/ x.c # cur \/ x.t # tr

RawNextCanStep ==
    /\ mode = "raw" /\ ~panicked /\ Terminals < MaxTerminal
    /\ RawPollChanges(poll_next(cur, tr))
RowNewCanStep ==
    /\ mode = "row" /\ rc.phase = "new" /\ ~panicked
    /\ validation => RowNewChanges(RowNewLoop(RowRes(rc, cur, tr, Pending, TRUE)))
RowNextCanStep ==
    /\ mode = "row" /\ rc.phase = "ready" /\ ~panicked /\ Terminals < MaxTerminal
    /\ RowPollChanges(RowNextPoll(rc, cur, tr, inflight))

\* Fair scheduling: the response future resolves, the chunk stream ends or
\* fails (after the finitely many chunks Arrive can cut), the executor polls
\* a future that can make a step, and the caller keeps calling next.  Weak
\* fairness of the three cursor actions is written out, <>[]enabled =>
\* []<>step.
Fairness ==
    /\ WF_vars(ResponseOk \/ ResponseErr)
    /\ WF_vars(StreamEnd \/ StreamFail)
    /\ <>[]RawNextCanStep => []<><<RawNext>>_vars
    /\ <>[]RowNewCanStep => []<><<RowNew>>_vars
    /\ <>[]RowNextCanStep => []<><<RowNext>>_vars

FairSpec == Spec /\ Fairness

\* ================================================================ claims
Payload == EncodeRows(rows)
Last(q) == q[Len(q)]
HeaderValid == parse_rbwnat_columns_header(hdr).kind = "ok"
HeaderSent == Len(tr.unsent) <= Len(Payload)
ChunksOut == Concat([i \in 1..Len(out) |-> out[i].data])
RowsOut == SelectSeq(out, LAMBDA r : r.kind = "row")
RowsOutBytes == EncodeRows([i \in 1..Len(RowsOut) |-> RowsOut[i].row])
\* The stream delivered everything and ended cleanly.
Clean == tr.response = "ok" /\ tr.term = "end" /\ tr.unsent = <<>>
\* Number of chunks the header discovery of the raw cursor pulled.
HdrChunks == CHOOSE j \in 0..Len(tr.pulled) :
                 /\ SumData(Take(tr.pulled, j)) >= Len(hdr)
                 /\ \A i \in 0..(j - 1) : SumData(Take(tr.pulled, i)) < Len(hdr)
Trailing == Drop(DataOf(Take(tr.pulled, HdrChunks)), Len(hdr))
Discovered == mode = "raw" /\ validation /\ cur.state = "Loading" /\ cur.metadata.present

\* C1: with validation enabled, whenever the stream has delivered a valid
\* header (of at least one column) completely, however it was cut into
\* chunks, the first call to
\* RawCursor::next has succeeded and the cursor stores the metadata of that
\* header, the same as for a header that came in one chunk.
C1_HeaderDiscoveredUnderEverySplit ==
    (mode = "raw" /\ validation /\ HeaderValid /\ hdr # <<0>> /\ HeaderSent /\ out # <<>>) =>
        /\ out[1].kind # "panic"
        /\ out[1].kind = "err" => out[1].err = "Network"
        /\ cur.state = "Loading"
        /\ cur.metadata = RowMetadataNew(parse_rbwnat_columns_header(hdr).columns)

\* C2: after a successful header discovery the chunks returned by
\* RawCursor::next are, in order, exactly the bytes pulled after the header:
\* the first one is the bytes trailing the header in the chunks pulled for
\* it, or the next chunk of the stream when there are none.
C2_TrailingBytesAreFirstChunk ==
    Discovered =>
        /\ ChunksOut = Drop(DataOf(tr.pulled), Len(hdr))
        /\ (out # <<>> /\ out[1].kind = "some") =>
               out[1].data = IF Trailing # <<>> THEN Trailing
                             ELSE tr.pulled[HdrChunks + 1].data
        /\ (out # <<>> /\ Trailing # <<>>) => out[1].kind = "some"

C2_Witness ==
    /\ Discovered
    /\ HdrChunks >= 2
    /\ Trailing # <<>>
    /\ Len(out) >= 2
    /\ out[1].data = Trailing
    /\ out[2].kind = "some"

C2_WitnessNoTrailing ==
    /\ Discovered
    /\ Trailing = <<>>
    /\ out # <<>>
    /\ out[1].kind = "some"

\* C3: for rows encoded after a header that matches the row type, whatever
\* the chunking, the rows RowCursor::next returns are the rows sent, in
\* order; once the whole stream was delivered and ended, the results are
\* exactly those rows followed by end-of-results.
RowInput == mode = "row" /\ rows \in RowSeqs /\ (validation => hdr = ColumnsHeader(ColumnsOfT))

C3_RowsRoundTrip ==
    RowInput =>
        /\ \A i \in 1..Len(out) :
               out[i].kind = "row" => (i <= Len(rows) /\ out[i].row = rows[i])
        /\ Clean =>
               \A i \in 1..Len(out) :
                   IF i <= Len(rows) THEN out[i].kind = "row" ELSE out[i].kind = "none"

\* Two rows, the first one cut by a chunk boundary, all returned.
C3_WitnessRowSpansChunks ==
    /\ RowInput /\ validation /\ Clean
    /\ Len(rows) = 2
    /\ Len(out) = 3
    /\ Last(out).kind = "none"
    /\ Len(tr.pulled) = 3
    /\ Len(hdr) < SumData(Take(tr.pulled, 2))
    /\ SumData(Take(tr.pulled, 2)) < Len(hdr) + Len(EncodeRow(rows[1]))

\* A chunk boundary exactly at the boundary between the two rows.
C3_Witness ==
    /\ RowInput /\ validation /\ Clean
    /\ Len(rows) = 2
    /\ rows[1] # rows[2]
    /\ Len(out) = 3
    /\ Last(out).kind = "none"
    /\ Len(tr.pulled) >= 2
    /\ SumData(Take(tr.pulled, Len(tr.pulled) - 1)) = Len(hdr) + Len(EncodeRow(rows[1]))

\* C4: received_bytes() and decoded_bytes() never decrease.
C4_CountersNeverDecrease ==
    [][/\ received_bytes(cur') >= received_bytes(cur)
       /\ decoded_bytes(cur') >= decoded_bytes(cur)]_vars

C4_Witness ==
    /\ mode = "row"
    /\ Len(tr.pulled) >= 3
    /\ Len(tr.pulled[3].data) < Len(tr.pulled[1].data)
    /\ decoded_bytes(cur) > SumData(Take(tr.pulled, 2))
    /\ received_bytes(cur) > SumNet(Take(tr.pulled, 2))

\* C5: in Loading over the resolved stream, decoded_bytes() is the sum of the
\* data lengths of all chunks pulled so far, the header's included, and
\* received_bytes() the sum of their net sizes; after full consumption
\* decoded_bytes() is header length plus payload length, and the two
\* counters agree when every chunk's net size is its data length.
FullyConsumed == Clean /\ tr.queue = <<>> /\ out # <<>> /\ Last(out).kind = "none"

C5_CountersSumPulledChunks ==
    (cur.state = "Loading" /\ cur.chunks = "stream") =>
        /\ decoded_bytes(cur) = SumData(tr.pulled)
        /\ received_bytes(cur) = SumNet(tr.pulled)
        /\ FullyConsumed => decoded_bytes(cur) = Len(hdr) + Len(Payload)
        /\ (\A i \in 1..Len(tr.pulled) : tr.pulled[i].net_size = Len(tr.pulled[i].data))
               => received_bytes(cur) = decoded_bytes(cur)

C5_Witness ==
    /\ Discovered
    /\ HdrChunks >= 2
    /\ FullyConsumed
    /\ rows # <<>>
    /\ decoded_bytes(cur) = Len(hdr) + Len(Payload)
    /\ received_bytes(cur) < decoded_bytes(cur)

C5_WitnessUncompressed ==
    /\ mode = "row"
    /\ FullyConsumed
    /\ rows # <<>>
    /\ received_bytes(cur) = decoded_bytes(cur)
    /\ decoded_bytes(cur) = Len(Payload)

NotEnoughDataErr == Res("err", <<>>, "NotEnoughData", NoRow, TRUE)

\* C6: when the raw cursor reports the end of the stream while the buffer
\* holds unconsumed bytes, RowCursor::next returns NotEnoughData, never a
\* row and never end-of-results.
C6_TruncatedStreamIsNotEnoughData ==
    (mode = "row" /\ out # <<>>) =>
        /\ (Last(out).sawNone /\ Remaining(rc.bytes) > 0) => Last(out) = NotEnoughDataErr
        /\ Last(out).kind \in {"row", "none"} => ~(Last(out).sawNone /\ Remaining(rc.bytes) > 0)

C6_Witness ==
    /\ mode = "row" /\ validation
    /\ tr.term = "end" /\ tr.unsent # <<>>
    /\ Len(out) = 2
    /\ out[1].kind = "row"
    /\ Last(out) = NotEnoughDataErr
    /\ Remaining(rc.bytes) > 0

\* C7: a complete header followed by no row and a clean end makes the first
\* RowCursor::next return Ok(None); and next returns Ok(None) exactly when
\* the raw cursor reported the end and the buffer has no unconsumed bytes.
C7_EndOfResultsIffEndedAndEmpty ==
    (mode = "row" /\ out # <<>>) =>
        /\ (rows = <<>> /\ Clean) => out[1] = ReadyNone
        /\ Last(out).kind = "none" <=> (Last(out).sawNone /\ Remaining(rc.bytes) = 0)

C7_Witness ==
    /\ mode = "row" /\ validation
    /\ rows = <<>> /\ Clean
    /\ Len(tr.pulled) >= 2
    /\ out # <<>>
    /\ out[1] = ReadyNone

\* C8: dropping a pending RowCursor::next and calling next again loses and
\* repeats nothing: the rows returned so far, the buffer's unconsumed view,
\* the chunks not yet pulled and the bytes not yet sent are together the
\* payload sent, the counters are the sums over the pulled chunks, and the
\* results are the rows sent followed by end-of-results.
C8_AbandonedCallLeavesNoTrace ==
    (mode = "row" /\ abandoned) =>
        /\ (RowInput /\ tr.response # "err") =>
               RowsOutBytes \o Slice(rc.bytes) \o DataOf(tr.queue) \o tr.unsent = Payload
        /\ cur.state = "Loading" /\ cur.chunks = "stream" =>
               /\ decoded_bytes(cur) = SumData(tr.pulled)
               /\ received_bytes(cur) = SumNet(tr.pulled)
        /\ (RowInput /\ Clean) =>
               \A i \in 1..Len(out) :
                   IF i <= Len(rows) THEN out[i] = Res("row", <<>>, "", rows[i], FALSE)
                   ELSE out[i] = ReadyNone

\* A pending call was dropped and the later calls returned every row.
C8_Witness ==
    /\ mode = "row" /\ abandoned /\ validation
    /\ RowInput /\ Clean
    /\ Len(rows) = 2
    /\ Len(out) = 3
    /\ Last(out) = ReadyNone
    /\ Len(tr.pulled) = 3

\* C9: a suspension of header discovery after the response has resolved
\* leaves the cursor holding the resolved stream.
C9_SuspensionKeepsResolvedStream ==
    (mode = "raw" /\ validation /\ inflight /\ tr.response = "ok") =>
        /\ cur.chunks # "dropped"
        /\ cur.future = "completed" => cur.state = "Loading"

\* C10: a header whose columns do not match the row type never yields a
\* row: the first decode returns the schema error.
Incompatible == mode = "row" /\ rc.phase = "ready" /\ rc.validation = "Enabled"
                /\ rc.row_metadata.columns # ColumnsOfT

C11_FailedResponseFusesCursor ==
    (mode = "raw" /\ tr.response = "err" /\ out # <<>>) =>
        /\ out[1] = ReadyErr("Network")
        /\ \A i \in 2..Len(out) : out[i] = ReadyNone
        /\ cur.state = "Loading" /\ cur.chunks = "empty"
        /\ received_bytes(cur) = 0 /\ decoded_bytes(cur) = 0
        /\ ~cur.metadata.present
        /\ ~panicked

C11_Witness ==
    /\ mode = "raw" /\ validation
    /\ tr.response = "err"
    /\ Len(out) = 2
    /\ out[1] = ReadyErr("Network")
    /\ out[2] = ReadyNone

\* C12: after next has returned an error, no later call on the cursor panics
\* or polls the completed response future.
C12_TerminatedAfterFatalError ==
    \A i \in 1..Len(out) : \A j \in 1..Len(out) :
        (i < j /\ out[i].kind = "err") => out[j].kind # "panic"

\* C13: header discovery ends with InvalidColumnsHeader on a malformed
\* header, with BadResponse("Could not read columns header") when the stream
\* ends before the header is complete, and with success on a complete valid
\* header; a parse that needs more data takes the next chunk.
CouldNotRead == "BadResponse: Could not read columns header"
HeaderMalformed == parse_rbwnat_columns_header(hdr).kind = "err"
EndedInHeader == tr.response = "ok" /\ tr.term = "end" /\ ~HeaderSent

C13_HeaderDiscoveryOutcomes ==
    /\ (mode = "raw" /\ validation /\ out # <<>>) =>
           /\ (HeaderMalformed /\ HeaderSent) => out[1] = ReadyErr("InvalidColumnsHeader")
           /\ EndedInHeader => out[1] = ReadyErr(CouldNotRead)
           /\ (HeaderValid /\ HeaderSent) => cur.state = "Loading"
    /\ (mode = "row" /\ validation /\ rc.phase # "new" /\ ~panicked) =>
           /\ (HeaderMalformed /\ HeaderSent) => rc.err = "InvalidColumnsHeader"
           /\ EndedInHeader => rc.err = CouldNotRead
           /\ (HeaderValid /\ hdr # <<0>> /\ HeaderSent) => rc.phase = "ready"

\* C14: the raw cursor state starts as Waiting, changes only from Waiting to
\* Loading, and once Loading it stays Loading under every poll, chunk and
\* error.
C14_WaitingThenLoadingForever ==
    /\ cur.state = "Waiting"
    /\ [][/\ cur.state = "Loading" => cur'.state = "Loading"
          /\ cur.state # cur'.state => (cur.state = "Waiting" /\ cur'.state = "Loading")]_vars

C14_Witness ==
    /\ cur.state = "Loading"
    /\ Len(out) >= 2
    /\ \E i \in 1..Len(out) : out[i].kind = "err"

\* C15: with validation the state is Loading with metadata only once a whole
\* header has been pulled and parsed, or without metadata after the response
\* future failed; without validation the state is Loading as soon as the
\* response future has been polled to completion, no metadata is stored, the
\* counters cover exactly the chunks handed out, and each chunk pulled from
\* the stream is returned unchanged.
SomeOut == SelectSeq(out, LAMBDA o : o.kind = "some")

C15_LoadingOnlyWhenResolved ==
    /\ (mode = "raw" /\ validation /\ cur.state = "Loading") =>
           \/ /\ tr.response = "ok"
              /\ cur.metadata.present
              /\ HeaderValid
              /\ Len(DataOf(tr.pulled)) >= Len(hdr)
              /\ cur.metadata = RowMetadataNew(parse_rbwnat_columns_header(hdr).columns)
           \/ /\ tr.response = "err"
              /\ ~cur.metadata.present
              /\ tr.pulled = <<>>
    /\ ~cur.validation =>
           /\ cur.future = "completed" => cur.state = "Loading"
           /\ ~cur.metadata.present
           /\ received_bytes(cur) = SumNet(tr.pulled)
           /\ decoded_bytes(cur) = SumData(tr.pulled)
           /\ mode = "raw" =>
                  /\ Len(SomeOut) = Len(tr.pulled)
                  /\ \A i \in 1..Len(SomeOut) : SomeOut[i].data = tr.pulled[i].data

C15_Witness ==
    /\ mode = "raw" /\ ~validation
    /\ cur.state = "Loading"
    /\ Len(tr.pulled) >= 2
    /\ Len(SomeOut) >= 2

C15_WitnessValidated ==
    /\ mode = "raw" /\ validation
    /\ cur.state = "Loading" /\ cur.metadata.present
    /\ Len(tr.pulled) >= 2

\* C16: stored metadata always has at least one column; a header declaring
\* zero columns never leaves metadata in a raw cursor or a constructed
\* RowCursor, it is rejected with BadResponse("Expected at least one column
\* in the header").
C16_MetadataNeverEmpty ==
    /\ cur.metadata.present => cur.metadata.columns # <<>>
    /\ rc.row_metadata.present => rc.row_metadata.columns # <<>>
    /\ (hdr = <<0>> /\ validation) =>
           /\ rc.phase # "ready"
           /\ (mode = "raw" /\ cur.state = "Loading") => tr.response = "err"
           /\ (mode = "row" /\ rc.phase = "failed" /\ tr.pulled # <<>>) =>
                  rc.err = "BadResponse: Expected at least one column in the header"

\* C17: once metadata is stored, in the raw cursor or in the RowCursor, no
\* later step replaces or changes it.
C17_MetadataStoredOnce ==
    [][/\ cur.metadata.present => cur'.metadata = cur.metadata
       /\ rc.row_metadata.present => rc'.row_metadata = rc.row_metadata]_vars

C17_Witness ==
    /\ mode = "raw"
    /\ cur.metadata.present
    /\ Len(SomeOut) >= 2

C17_WitnessRow ==
    /\ mode = "row"
    /\ rc.row_metadata.present
    /\ Len(RowsOut) >= 2

\* C18: "not enough data" is never a final result while more data can
\* arrive: a raw next and RowCursor::new never return it (a header cut short
\* by the end of the stream is BadResponse), and RowCursor::next returns it
\* only after the stream has ended with unconsumed bytes in the buffer.
C18_NotEnoughDataOnlyAtStreamEnd ==
    /\ rc.err # "NotEnoughData"
    /\ mode = "raw" =>
           /\ \A i \in 1..Len(out) : out[i].err # "NotEnoughData"
           /\ (validation /\ EndedInHeader /\ out # <<>> /\ out[1].kind = "err") =>
                  out[1].err = CouldNotRead
    /\ mode = "row" =>
           \A i \in 1..Len(out) : out[i].err = "NotEnoughData" =>
               /\ out[i].sawNone
               /\ tr.term \in {"end", "failed"}
               /\ tr.queue = <<>>
               /\ Remaining(rc.bytes) > 0

C18_Witness ==
    /\ mode = "row"
    /\ Len(tr.pulled) >= 2
    /\ out # <<>>
    /\ Last(out).err = "NotEnoughData"

C18_WitnessHeader ==
    /\ mode = "raw" /\ validation
    /\ tr.pulled # <<>>
    /\ out # <<>>
    /\ out[1] = ReadyErr(CouldNotRead)

\* C19: in a constructed RowCursor the bytes consumed so far (the header and
\* the rows handed out) followed by the unconsumed view of the buffer are
\* the concatenation of all chunk data received so far.
C19_BufferIsUnconsumedSuffix ==
    (mode = "row" /\ rc.phase = "ready") =>
        hdr \o RowsOutBytes \o Slice(rc.bytes) = DataOf(tr.pulled)

C19_Witness ==
    /\ mode = "row" /\ rc.phase = "ready"
    /\ Len(RowsOut) >= 1
    /\ Remaining(rc.bytes) > 0
    /\ Len(tr.pulled) >= 2
    /\ Len(DataOf(tr.pulled)) < Len(Payload)

\* C20: when RowCursor::next returns a row decode error other than "not
\* enough data", it returns at the failing decode: the buffer view is the
\* one that was decoded (the view before the call followed by the chunks the
\* call had pulled before that decode), no chunk is pulled after the failing
\* decode, and the counters cover exactly the chunks pulled; a call whose
\* first decode fails changes nothing at all.
PulledInStep == SubSeq(tr'.pulled, Len(tr.pulled) + 1, Len(tr'.pulled))
BeforeLastPull == Slice(rc.bytes) \o DataOf(SubSeq(PulledInStep, 1, Len(PulledInStep) - 1))
DecodeErrorReturned ==
    /\ mode = "row" /\ rc.phase = "ready"
    /\ Len(out') = Len(out) + 1
    /\ Last(out').kind = "err"
    /\ Last(out').err \notin {"NotEnoughData", "Network"}

C20_DecodeErrorReturnsAtOnce ==
    [][DecodeErrorReturned =>
          /\ Slice(rc'.bytes) = Slice(rc.bytes) \o DataOf(PulledInStep)
          /\ RowDecode(rc').kind = "err" /\ RowDecode(rc').err = Last(out').err
          /\ received_bytes(cur') = SumNet(tr'.pulled)
          /\ decoded_bytes(cur') = SumData(tr'.pulled)
          /\ tr'.queue = SubSeq(tr.queue, Len(PulledInStep) + 1, Len(tr.queue))
          /\ PulledInStep = <<>> => (rc' = rc /\ cur' = cur /\ tr' = tr)
          /\ PulledInStep # <<>> =>
                 \/ BeforeLastPull = <<>>
                 \/ RowDecode([rc EXCEPT !.bytes = Extend(BytesDefault, BeforeLastPull)]).kind = "need"]_vars

C20_Witness ==
    /\ mode = "row" /\ rc.phase = "ready"
    /\ out # <<>>
    /\ Last(out) = ReadyErr("SchemaMismatch")
    /\ Remaining(rc.bytes) > 0
    /\ tr.queue # <<>>

C20_WitnessAfterPull ==
    /\ mode = "row" /\ rc.phase = "ready"
    /\ out # <<>>
    /\ Last(out) = ReadyErr("InvalidUtf8Encoding")
    /\ Len(tr.pulled) >= 2

\* C21: when the response future resolves and the chunk stream ends or
\* fails after finitely many chunks, then under fair scheduling every call
\* to next that is pending eventually returns a result, and the calls on a
\* cursor eventually return end-of-results or an error.
CallReturned == ~inflight /\ ~panicked
EndOrError == out # <<>> /\ Last(out).kind \in {"none", "err"}

C21_EveryCallEventuallyReturns ==
    /\ inflight ~> CallReturned
    /\ (mode = "raw" \/ rc.phase = "ready") ~> EndOrError

\* The same for the cursors that do no header discovery inside poll_resolve:
\* a RowCursor, and a raw cursor without validation.
NoRawDiscovery == mode = "row" \/ ~validation

TerminatesWithoutRawDiscovery ==
    /\ (NoRawDiscovery /\ inflight) ~> CallReturned
    /\ (NoRawDiscovery /\ (mode = "raw" \/ rc.phase = "ready")) ~> EndOrError
    /\ (mode = "row") ~> (rc.phase = "failed" \/ EndOrError)

====
